---- MODULE Spec2Model ----
(***************************************************************************)
(* Model of the admin dashboard's live-data pipeline: the appointments     *)
(* and repairs views (subscription, per-record resolver, filter) and the   *)
(* freelance technicians view (subscription, selection, soft delete).      *)
(*                                                                         *)
(* JavaScript values are modelled as follows.  A string-or-undefined is a  *)
(* record [def, s]: def = FALSE is undefined, otherwise s is the sequence  *)
(* of its characters.  An object-or-undefined is a record whose def field  *)
(* says whether it is present; the fields of an absent object are Undef.   *)
(***************************************************************************)
EXTENDS Integers, Sequences, FiniteSets, TLC

VARIABLES
    \* ---- appointments / repairs view (one mounted view per behaviour)
    view,        \* "appointments" or "repairs": which page is mounted
    users,       \* store: users collection, id -> document
    technicians, \* store: technicians collection, id -> document
    mounted,     \* the component is mounted (effect cleanup has not run)
    subscribed,  \* the onSnapshot listener is open
    records,     \* useState: appointments / repairs
    loading,     \* useState: loading
    error,       \* useState: error (appointments only; repairs has none)
    passes,      \* the invocations of the async snapshot callback, in order
    errorFired,  \* history: the listener's error callback has run
    \* ---- freelance view
    techDocs,    \* store: technicians collection as the freelance view reads it
    fSubscribed, \* the technicians listener is open
    freelancers, \* useState: freelancers
    fLoading,    \* useState: loading
    selected,    \* useState: selected (a technician or NoTech)
    gate,        \* useConfirmation: the open confirmation, if any
    writes,      \* setDoc calls in flight
    clock,       \* wall clock read by new Date()
    alerts,      \* number of alert() calls
    dlog,        \* history: per technician, how often each delete event happened
    \* ---- search box and status select of the appointments / repairs view
    fIn,         \* the stored record list handed to the filter
    searchTerm,  \* useState: searchTerm
    statusFilter,\* useState: statusFilter / typeFilter
    fOut,        \* the filtered list of the last render
    fAgain,      \* the filter applied to fOut with the same term and status
    \* ---- diagnosis modal of the appointments view
    diagnoses,          \* store: diagnoses collection, id -> document
    showDiagnosisModal, \* useState: showDiagnosisModal
    diagnosisLoading,   \* useState: diagnosisLoading
    diagnosisError,     \* useState: diagnosisError
    diagnosisData,      \* useState: diagnosisData
    requests,           \* the invocations of the View Diagnosis handler, in order
    \* ---- which page of the dashboard the behaviour runs
    focus

syncVars   == <<view, users, technicians, mounted, subscribed, records, loading,
                error, passes, errorFired>>
freeVars   == <<techDocs, fSubscribed, freelancers, fLoading, selected, gate,
                writes, clock, alerts, dlog>>
filterVars == <<fIn, searchTerm, statusFilter, fOut, fAgain>>
diagVars   == <<diagnoses, showDiagnosisModal, diagnosisLoading, diagnosisError,
                diagnosisData, requests>>
vars       == <<syncVars, freeVars, filterVars, diagVars, focus>>

-----------------------------------------------------------------------------
(* JavaScript strings *)

Undef == [def |-> FALSE, s |-> <<>>]
Str(chars) == [def |-> TRUE, s |-> chars]

\* a value is truthy unless it is undefined or the empty string
Truthy(t) == t.def /\ t.s # <<>>

\* a || b on strings
Or(a, b) == IF Truthy(a) THEN a ELSE b

\* String.prototype.toLowerCase on the letters the model uses
LowerChar(c) ==
    CASE c = "A" -> "a"
      [] c = "I" -> "i"
      [] c = "N" -> "n"
      [] c = "P" -> "p"
      [] c = "U" -> "u"
      [] OTHER   -> c

ToLowerCase(chars) == [i \in DOMAIN chars |-> LowerChar(chars[i])]

\* String.prototype.includes
Includes(hay, needle) ==
    \E i \in 0..(Len(hay) - Len(needle)) :
        \A j \in 1..Len(needle) : hay[i + j] = needle[j]

Unknown == Str(<<"U", "n", "k", "n", "o", "w", "n">>)
NA      == Str(<<"N", "/", "A">>)

-----------------------------------------------------------------------------
(* JavaScript objects *)

\* a user / technician display object or store document
NoObj == [def |-> FALSE, username |-> Undef, name |-> Undef, fullName |-> Undef,
          email |-> Undef, phone |-> Undef]
Obj(username, name, fullName, email, phone) ==
    [def |-> TRUE, username |-> username, name |-> name, fullName |-> fullName,
     email |-> email, phone |-> phone]

\* a || b on objects
OrObj(a, b) == IF a.def THEN a ELSE b

NoDiag == [def |-> FALSE, category |-> Undef, brand |-> Undef, issue |-> Undef,
           issueDescription |-> Undef, diagnosis |-> Undef]
Diag(category, brand, issue, issueDescription, diagnosis) ==
    [def |-> TRUE, category |-> category, brand |-> brand, issue |-> issue,
     issueDescription |-> issueDescription, diagnosis |-> diagnosis]

NoStatus == [def |-> FALSE, global |-> Undef]
Status(g) == [def |-> TRUE, global |-> g]

-----------------------------------------------------------------------------
(* Appointment records (AppointmentData / RepairData) *)

Rec(id, userId, technicianId, userInfo, userDetails, technicianInfo, technicianDetails, deviceType, issue, diagData, status) ==
    [id |-> id, userId |-> userId, technicianId |-> technicianId,
     userInfo |-> userInfo, userDetails |-> userDetails,
     technicianInfo |-> technicianInfo, technicianDetails |-> technicianDetails,
     deviceType |-> deviceType, issue |-> issue,
     diagnosisData |-> diagData, status |-> status]

-----------------------------------------------------------------------------
(* Store point read: getDoc.  A read that was not issued is "none"; an    *)
(* issued read throws ("fail"), finds no document ("absent") or returns   *)
(* the document ("doc").                                                   *)

NoRead      == [kind |-> "none", data |-> NoObj]
FailedRead  == [kind |-> "fail", data |-> NoObj]
GetDoc(coll, id) ==
    IF coll[id].def THEN [kind |-> "doc", data |-> coll[id]]
                    ELSE [kind |-> "absent", data |-> NoObj]

-----------------------------------------------------------------------------
(* The appointments resolver, fetchUserAndTechnicianDetails *)

\* the display object built from a fetched document or an embedded snapshot
DisplayInfo(o) ==
    Obj(Or(Or(o.username, o.name), Unknown), Undef, Undef,
        Or(o.email, NA), Or(o.phone, NA))

\* faulty variant: an embedded userDetails does not stop the read
ApptNeedsUserReadIgnoringDetails(a) ==
    ~a.userInfo.def /\ Truthy(a.userId)

ApptNeedsUserRead(a) ==
    ~OrObj(a.userInfo, a.userDetails).def /\ Truthy(a.userId)

ApptNeedsTechRead(a) ==
    ~OrObj(a.technicianInfo, a.technicianDetails).def /\ Truthy(a.technicianId)

\* the local variable userInfo / technicianInfo once the read (if any) is over
ApptInfoAfterRead(embedded, read) ==
    IF ~embedded.def /\ read.kind = "doc" THEN DisplayInfo(read.data) ELSE embedded

ApptInfoReturned(info) == IF info.def THEN DisplayInfo(info) ELSE NoObj

\* faulty variant: one try / catch around both reads, so a failed read gives
\* the record back as it came
ApptResolvedAllOrNothing(a, uRead, tRead) ==
    IF uRead.kind = "fail" \/ tRead.kind = "fail" THEN a
    ELSE [a EXCEPT
            !.userInfo = ApptInfoReturned(
                ApptInfoAfterRead(OrObj(a.userInfo, a.userDetails), uRead)),
            !.technicianInfo = ApptInfoReturned(
                ApptInfoAfterRead(OrObj(a.technicianInfo, a.technicianDetails), tRead))]

ApptResolved(a, uRead, tRead) ==
    [a EXCEPT
       !.userInfo = ApptInfoReturned(
           ApptInfoAfterRead(OrObj(a.userInfo, a.userDetails), uRead)),
       !.technicianInfo = ApptInfoReturned(
           ApptInfoAfterRead(OrObj(a.technicianInfo, a.technicianDetails), tRead))]

-----------------------------------------------------------------------------
(* The repairs resolver, fetchUserAndTechnicianDetails *)

RepNeedsUserRead(a) ==
    ~a.userInfo.def /\ ~a.userDetails.def /\ Truthy(a.userId)

RepNeedsTechRead(a) ==
    ~a.technicianInfo.def /\ ~a.technicianDetails.def /\ Truthy(a.technicianId)

\* userData / technicianData: the fetched document, or null
RepData(read) == IF read.kind = "doc" THEN read.data ELSE NoObj

RepUserInfo(a, userData) ==
    IF a.userInfo.def \/ userData.def
    THEN Obj(Or(Or(userData.username, userData.name), Unknown), Undef, Undef,
             Or(userData.email, NA), Or(userData.phone, NA))
    ELSE NoObj

RepTechnicianInfo(a, techData) ==
    IF a.technicianInfo.def \/ techData.def
    THEN Obj(Or(Or(Or(techData.username, techData.name), techData.fullName), Unknown),
             Undef, Undef, Or(techData.email, NA), Or(techData.phone, NA))
    ELSE NoObj

RepUserDetails(a, userData) ==
    IF a.userDetails.def \/ userData.def
    THEN Obj(Undef, Or(Or(userData.username, userData.name), Unknown), Undef,
             Or(userData.email, NA), Or(userData.phone, NA))
    ELSE NoObj

\* rating, experience, shopName and distance are not display fields of the
\* list or of the search and are left out of the object
RepTechnicianDetails(a, techData) ==
    IF a.technicianDetails.def \/ techData.def
    THEN Obj(Undef, Or(Or(Or(techData.username, techData.name), techData.fullName), Unknown),
             Undef, Undef, Or(techData.phone, NA))
    ELSE NoObj

RepResolved(a, uRead, tRead) ==
    [a EXCEPT
       !.userInfo          = RepUserInfo(a, RepData(uRead)),
       !.technicianInfo    = RepTechnicianInfo(a, RepData(tRead)),
       !.userDetails       = RepUserDetails(a, RepData(uRead)),
       !.technicianDetails = RepTechnicianDetails(a, RepData(tRead))]

\* the resolver of the mounted view
NeedsUserRead(v, a) == IF v = "appointments" THEN ApptNeedsUserRead(a) ELSE RepNeedsUserRead(a)
NeedsTechRead(v, a) == IF v = "appointments" THEN ApptNeedsTechRead(a) ELSE RepNeedsTechRead(a)
Resolved(v, a, uRead, tRead) ==
    IF v = "appointments" THEN ApptResolved(a, uRead, tRead) ELSE RepResolved(a, uRead, tRead)

-----------------------------------------------------------------------------
(* Bounds and inputs of the appointments / repairs view *)

\* number of snapshots the listener delivers in one behaviour
MaxSnapshots == 2

UserIds == {<<"u", "1">>, <<"u", "2">>}
TechIds == {<<"t", "1">>, <<"t", "2">>}

\* the users and technicians collections: u1 and t1 exist, u2 and t2 do not
UsersColl ==
    [u \in UserIds |->
        IF u = <<"u", "1">>
        THEN Obj(Undef, Str(<<"a", "n", "n">>), Undef, Str(<<"a", "@">>), Undef)
        ELSE NoObj]
TechniciansColl ==
    [t \in TechIds |->
        IF t = <<"t", "1">>
        THEN Obj(Undef, Undef, Str(<<"t", "o", "m">>), Undef, Str(<<"5", "5">>))
        ELSE NoObj]

Completed == Str(<<"C", "o", "m", "p", "l", "e", "t", "e", "d">>)
Repairing == Str(<<"R", "e", "p", "a", "i", "r", "i", "n", "g">>)

\* a record that references its user and technician by id only
RawA == Rec("r1", Str(<<"u", "1">>), Str(<<"t", "1">>), NoObj, NoObj, NoObj, NoObj,
            Str(<<"i", "P">>), Undef, NoDiag, Status(Completed))
\* a record that embeds its user (mobile app structure) but not its technician,
\* whose document does not exist
RawB == Rec("r2", Str(<<"u", "1">>), Str(<<"t", "2">>), NoObj,
            Obj(Undef, Str(<<"b", "o", "b">>), Undef, Undef, Str(<<"7", "7">>)),
            NoObj, NoObj, Undef, Str(<<"p", "i", "n">>), NoDiag, Status(Repairing))
\* a record that embeds both (legacy structure)
RawC == Rec("r3", Str(<<"u", "1">>), Str(<<"t", "1">>),
            Obj(Str(<<"c", "y">>), Undef, Undef, Str(<<"c", "@">>), Undef), NoObj,
            Obj(Str(<<"t", "i", "m">>), Undef, Undef, Undef, Undef), NoObj,
            Undef, Undef, NoDiag, Status(Completed))
\* a record whose user document does not exist and that names no technician
RawD == Rec("r4", Str(<<"u", "2">>), Undef, NoObj, NoObj, NoObj, NoObj,
            Undef, Str(<<"p", "i", "n">>), NoDiag, Status(Completed))

\* the result sets the listener may deliver
Snapshots == {<<>>, <<RawC>>, <<RawA>>, <<RawD, RawB>>}

NoError == "null"

-----------------------------------------------------------------------------
(* The async snapshot callback of the appointments / repairs view.  One    *)
(* invocation ("pass") resolves the records of its snapshot concurrently;  *)
(* within a record the user read is awaited before the technician read is  *)
(* issued.  The continuation after Promise.all runs in the microtasks of   *)
(* the last read's completion, so it is part of that step.                 *)

StartPc(v, a) ==
    IF NeedsUserRead(v, a) THEN "user"
    ELSE IF NeedsTechRead(v, a) THEN "tech" ELSE "done"

NewWork(v, S) ==
    [i \in DOMAIN S |-> [pc |-> StartPc(v, S[i]), uRead |-> NoRead, tRead |-> NoRead]]

AllDone(work) == \A i \in DOMAIN work : work[i].pc = "done"

\* processedAppointments: the value of Promise.all
PassResult(v, S, work) ==
    [i \in DOMAIN S |-> Resolved(v, S[i], work[i].uRead, work[i].tRead)]

\* setAppointments(processedAppointments) / setRepairs(...); setLoading(false),
\* once every record of the pass is resolved
PassCompletes(p, work) ==
    IF AllDone(work)
    THEN /\ records' = PassResult(view, p.snap, work)
         /\ loading' = FALSE
    ELSE UNCHANGED <<records, loading>>

\* the listener delivers snapshot S and the callback runs up to its await
OnSnapshot(S) ==
    /\ subscribed
    /\ Len(passes) < MaxSnapshots
    /\ LET p == [snap |-> S, work |-> NewWork(view, S)]
       IN /\ passes' = Append(passes, p)
          /\ error' = IF view = "appointments" THEN NoError ELSE error
          /\ PassCompletes(p, p.work)
    /\ UNCHANGED <<view, users, technicians, mounted, subscribed, errorFired>>
    /\ UNCHANGED <<freeVars, filterVars, diagVars, focus>>

\* the read of users/<userId> of record i of pass n returns or throws
UserReadDone(n, i, fails) ==
    /\ n \in DOMAIN passes
    /\ i \in DOMAIN passes[n].work
    /\ passes[n].work[i].pc = "user"
    /\ LET p    == passes[n]
           a    == p.snap[i]
           got  == IF fails THEN FailedRead ELSE GetDoc(users, a.userId.s)
           work == [p.work EXCEPT ![i] =
                      [@ EXCEPT !.uRead = got,
                                !.pc = IF NeedsTechRead(view, a) THEN "tech" ELSE "done"]]
       IN /\ passes' = [passes EXCEPT ![n].work = work]
          /\ PassCompletes(p, work)
    /\ UNCHANGED <<view, users, technicians, mounted, subscribed, error, errorFired>>
    /\ UNCHANGED <<freeVars, filterVars, diagVars, focus>>

\* the read of technicians/<technicianId> of record i of pass n returns or throws
TechReadDone(n, i, fails) ==
    /\ n \in DOMAIN passes
    /\ i \in DOMAIN passes[n].work
    /\ passes[n].work[i].pc = "tech"
    /\ LET p    == passes[n]
           a    == p.snap[i]
           got  == IF fails THEN FailedRead ELSE GetDoc(technicians, a.technicianId.s)
           work == [p.work EXCEPT ![i] = [@ EXCEPT !.tRead = got, !.pc = "done"]]
       IN /\ passes' = [passes EXCEPT ![n].work = work]
          /\ PassCompletes(p, work)
    /\ UNCHANGED <<view, users, technicians, mounted, subscribed, error, errorFired>>
    /\ UNCHANGED <<freeVars, filterVars, diagVars, focus>>

\* the listener's error callback; the store closes a listener that has failed
OnError ==
    /\ subscribed
    /\ error' = IF view = "appointments" THEN "Failed to connect to database" ELSE error
    /\ loading' = FALSE
    /\ subscribed' = FALSE
    /\ errorFired' = TRUE
    /\ UNCHANGED <<view, users, technicians, mounted, records, passes>>
    /\ UNCHANGED <<freeVars, filterVars, diagVars, focus>>

\* the effect's cleanup: unsubscribe()
Unmount ==
    /\ mounted
    /\ mounted' = FALSE
    /\ subscribed' = FALSE
    /\ UNCHANGED <<view, users, technicians, records, loading, error, passes, errorFired>>
    /\ UNCHANGED <<freeVars, filterVars, diagVars, focus>>

\* what the component renders
Render ==
    IF loading THEN "spinner"
    ELSE IF view = "appointments" /\ error # NoError THEN "error"
    ELSE "list"

SyncInit ==
    /\ view \in {"appointments", "repairs"}
    /\ users = UsersColl
    /\ technicians = TechniciansColl
    /\ mounted = TRUE
    /\ subscribed = TRUE
    /\ records = <<>>
    /\ loading = TRUE
    /\ error = NoError
    /\ passes = <<>>
    /\ errorFired = FALSE

SyncNext ==
    \/ \E S \in Snapshots : OnSnapshot(S)
    \/ \E n \in DOMAIN passes : \E i \in DOMAIN passes[n].work : \E fails \in BOOLEAN :
           UserReadDone(n, i, fails)
    \/ \E n \in DOMAIN passes : \E i \in DOMAIN passes[n].work : \E fails \in BOOLEAN :
           TechReadDone(n, i, fails)
    \/ OnError
    \/ Unmount

-----------------------------------------------------------------------------
(* The freelance technicians view *)

\* number of delete requests in one behaviour
MaxDeletes == 2
\* last value of the wall clock
MaxClock == 2

Uids == {"t1", "t2"}
UidOrder == <<"t1", "t2">>

NoTime == [def |-> FALSE, t |-> 0]
\* new Date().toISOString() at clock value t
IsoTime(t) == [def |-> TRUE, t |-> t]

\* a status that is not a string (typeof status # "string")
NumberStatus == [def |-> TRUE, n |-> 1]
IsString(x) == x.def /\ "s" \in DOMAIN x

Approved == <<"a", "p", "p", "r", "o", "v", "e", "d">>
Admin == Str(<<"a", "d", "m", "i", "n">>)

\* a technicians document; hasShop and isDeleted are read only through !x,
\* so an absent flag is modelled as FALSE
TechDoc(username, status, hasShop, isDeleted) ==
    [username |-> username, status |-> status, hasShop |-> hasShop,
     isDeleted |-> isDeleted, deletedAt |-> NoTime, deletedBy |-> Undef]

FreelanceDocs ==
    { TechDoc(Str(<<"a", "n", "n">>), Str(Approved), FALSE, FALSE),
      TechDoc(Str(<<"b", "o", "b">>), Str(<<"A", "p", "p", "r", "o", "v", "e", "d">>), FALSE, FALSE),
      TechDoc(Str(<<"c", "y">>), Str(Approved), TRUE, FALSE),
      TechDoc(Undef, Str(<<"p", "e", "n", "d", "i", "n", "g">>), FALSE, FALSE),
      TechDoc(Str(<<"d", "i">>), NumberStatus, FALSE, FALSE),
      TechDoc(Str(<<"e", "d">>), Undef, FALSE, FALSE) }

\* snapshot.docs.map(d => ({uid: d.id, ...d.data()}))
WithUid(uid, data) == [f \in {"uid"} \cup DOMAIN data |-> IF f = "uid" THEN uid ELSE data[f]]
SnapshotDocs(coll) == [i \in DOMAIN UidOrder |-> WithUid(UidOrder[i], coll[UidOrder[i]])]

\* faulty variant: the status is compared without lower-casing it
IsFreelanceCaseSensitive(t) ==
    ~t.isDeleted /\ IsString(t.status) /\ t.status.s = Approved /\ ~t.hasShop

\* faulty variant: the isDeleted flag is not consulted
IsFreelanceKeepsDeleted(t) ==
    LET status == IF IsString(t.status) THEN ToLowerCase(t.status.s) ELSE <<>>
    IN status = Approved /\ ~t.hasShop

\* the predicate of docs.filter(...)
IsFreelance(t) ==
    LET status == IF IsString(t.status) THEN ToLowerCase(t.status.s) ELSE <<>>
    IN ~t.isDeleted /\ status = Approved /\ ~t.hasShop

FreelanceTechs(docs) == SelectSeq(docs, IsFreelance)

\* the technicians listener delivers the current result set
FreelanceOnSnapshot ==
    /\ fSubscribed
    /\ freelancers' = FreelanceTechs(SnapshotDocs(techDocs))
    /\ fLoading' = FALSE
    /\ UNCHANGED <<techDocs, fSubscribed, selected, gate, writes, clock, alerts, dlog>>
    /\ UNCHANGED <<syncVars, filterVars, diagVars, focus>>

\* the listener's error callback; the store closes a listener that has failed
FreelanceOnError ==
    /\ fSubscribed
    /\ fLoading' = FALSE
    /\ fSubscribed' = FALSE
    /\ UNCHANGED <<techDocs, freelancers, selected, gate, writes, clock, alerts, dlog>>
    /\ UNCHANGED <<syncVars, filterVars, diagVars, focus>>

\* what the freelance page renders in place of the card list
FreelanceRender ==
    IF fLoading THEN "spinner"
    ELSE IF freelancers = <<>> THEN "empty" ELSE "list"

\* "View Details" on card i: setSelected(f)
ViewDetails(i) ==
    /\ FreelanceRender = "list"
    /\ i \in DOMAIN freelancers
    /\ selected' = <<freelancers[i]>>
    /\ UNCHANGED <<techDocs, fSubscribed, freelancers, fLoading, gate, writes, clock,
                   alerts, dlog>>
    /\ UNCHANGED <<syncVars, filterVars, diagVars, focus>>

\* the overlay or the close button: setSelected(null)
CloseDetails ==
    /\ selected # <<>>
    /\ selected' = <<>>
    /\ UNCHANGED <<techDocs, fSubscribed, freelancers, fLoading, gate, writes, clock,
                   alerts, dlog>>
    /\ UNCHANGED <<syncVars, filterVars, diagVars, focus>>

NoGate == [isOpen |-> FALSE, freelancer |-> <<>>]

\* history of the deletes: the events counted by dlog
DeleteEvents == {"request", "confirm", "cancel", "write", "applied", "failed"}
NoEvents == [ev \in DeleteEvents |-> [u \in Uids |-> 0]]
Count(log, ev, u) == [log EXCEPT ![ev][u] = @ + 1]
RECURSIVE Total(_, _)
Total(f, S) ==
    IF S = {} THEN 0
    ELSE LET x == CHOOSE y \in S : TRUE IN f[x] + Total(f, S \ {x})

\* "Delete Technician": handleDelete(selected) up to await confirmation.confirm(...)
DeleteRequest ==
    /\ selected # <<>>
    /\ ~gate.isOpen
    /\ Total(dlog["request"], Uids) < MaxDeletes
    /\ gate' = [isOpen |-> TRUE, freelancer |-> selected]
    /\ dlog' = Count(dlog, "request", selected[1].uid)
    /\ UNCHANGED <<techDocs, fSubscribed, freelancers, fLoading, selected, writes, clock,
                   alerts>>
    /\ UNCHANGED <<syncVars, filterVars, diagVars, focus>>

\* faulty variant: the payload also rewrites the technician's status
DeletePayloadWithStatus(now) ==
    [isDeleted |-> TRUE, deletedAt |-> IsoTime(now), deletedBy |-> Admin,
     status |-> Str(<<"d", "e", "l", "e", "t", "e", "d">>)]

\* the object handed to setDoc
DeletePayload(now) ==
    [isDeleted |-> TRUE, deletedAt |-> IsoTime(now), deletedBy |-> Admin]

\* faulty variant: the answer of the confirmation is ignored
DeleteProceedsAlways(ok) == TRUE

\* if (ok) { ... }
DeleteProceeds(ok) == ok

\* handleDelete after the confirmation promise resolves to ok
HandleDeleteAnswered(ok) ==
    /\ gate.isOpen
    /\ gate' = NoGate
    /\ LET uid == gate.freelancer[1].uid
           answered == Count(dlog, IF ok THEN "confirm" ELSE "cancel", uid)
       IN IF DeleteProceeds(ok)
          THEN /\ writes' = Append(writes, [uid |-> uid, payload |-> DeletePayload(clock),
                                            merge |-> TRUE, at |-> clock])
               /\ dlog' = Count(answered, "write", uid)
          ELSE /\ writes' = writes
               /\ dlog' = answered
    /\ UNCHANGED <<techDocs, fSubscribed, freelancers, fLoading, selected, clock, alerts>>
    /\ UNCHANGED <<syncVars, filterVars, diagVars, focus>>

\* the confirmation modal's Delete button: handleConfirm resolves the promise to true
Confirm ==
    /\ gate.isOpen
    /\ HandleDeleteAnswered(TRUE)

\* the confirmation modal's Cancel button: handleCancel resolves the promise to false
Cancel ==
    /\ gate.isOpen
    /\ HandleDeleteAnswered(FALSE)

\* setDoc(ref, data, {merge: true}) on an existing document
\* faulty variant: setDoc without {merge: true}, the payload replaces the document
SetDocOverwrite(old, data) ==
    [f \in DOMAIN old \cup DOMAIN data |->
        IF f \in DOMAIN data THEN data[f] ELSE TechDoc(Undef, Undef, FALSE, FALSE)[f]]

\* setDoc(ref, data, {merge: true})
SetDocMerge(old, data) ==
    [f \in DOMAIN old \cup DOMAIN data |-> IF f \in DOMAIN data THEN data[f] ELSE old[f]]

Remove(seq, k) == [i \in 1..(Len(seq) - 1) |-> IF i < k THEN seq[i] ELSE seq[i + 1]]

\* handleDelete after setDoc resolves: setSelected(null)
HandleDeleteSuccess ==
    selected' = <<>>

\* faulty variant: the selection is cleared on failure as well
HandleDeleteCatchDeselects ==
    /\ alerts' = alerts + 1
    /\ selected' = <<>>

\* handleDelete's catch: console.error, alert
HandleDeleteCatch ==
    /\ alerts' = alerts + 1
    /\ UNCHANGED selected

\* write k in flight is committed by the store
WriteSucceeds(k) ==
    /\ k \in DOMAIN writes
    /\ techDocs' = [techDocs EXCEPT ![writes[k].uid] = SetDocMerge(@, writes[k].payload)]
    /\ writes' = Remove(writes, k)
    /\ HandleDeleteSuccess
    /\ dlog' = Count(dlog, "applied", writes[k].uid)
    /\ UNCHANGED <<fSubscribed, freelancers, fLoading, gate, clock, alerts>>
    /\ UNCHANGED <<syncVars, filterVars, diagVars, focus>>

\* write k in flight is rejected by the store: nothing is committed
WriteFails(k) ==
    /\ k \in DOMAIN writes
    /\ writes' = Remove(writes, k)
    /\ HandleDeleteCatch
    /\ dlog' = Count(dlog, "failed", writes[k].uid)
    /\ UNCHANGED <<techDocs, fSubscribed, freelancers, fLoading, gate, clock>>
    /\ UNCHANGED <<syncVars, filterVars, diagVars, focus>>

\* time passes
Tick ==
    /\ clock < MaxClock
    /\ clock' = clock + 1
    /\ UNCHANGED <<techDocs, fSubscribed, freelancers, fLoading, selected, gate, writes,
                   alerts, dlog>>
    /\ UNCHANGED <<syncVars, filterVars, diagVars, focus>>

FreelanceInit ==
    /\ techDocs \in [Uids -> FreelanceDocs]
    /\ fSubscribed = TRUE
    /\ freelancers = <<>>
    /\ fLoading = TRUE
    /\ selected = <<>>
    /\ gate = NoGate
    /\ writes = <<>>
    /\ clock = 1
    /\ alerts = 0
    /\ dlog = NoEvents

FreelanceNext ==
    \/ FreelanceOnSnapshot
    \/ FreelanceOnError
    \/ \E i \in DOMAIN freelancers : ViewDetails(i)
    \/ CloseDetails
    \/ DeleteRequest
    \/ Confirm
    \/ Cancel
    \/ \E k \in DOMAIN writes : WriteSucceeds(k)
    \/ \E k \in DOMAIN writes : WriteFails(k)
    \/ Tick

-----------------------------------------------------------------------------
(* The filters of the appointments and repairs views *)

\* length of the record list handed to the filter
MaxFilterLen == 3

All == <<"a", "l", "l">>

\* filteredAppointments: the predicate of appointments.filter(...)
ApptMatches(a, term, status) ==
    LET searchLower == ToLowerCase(term)
        userName == Or(Or(Or(a.userInfo.username, a.userDetails.name),
                          a.userDetails.username), Unknown)
        techName == Or(Or(Or(a.technicianInfo.username, a.technicianDetails.name),
                          a.technicianDetails.username), Unknown)
        deviceType == Or(Or(Or(a.deviceType, a.diagnosisData.category),
                            a.diagnosisData.brand), Str(<<>>))
        issue == Or(Or(Or(a.issue, a.diagnosisData.issue),
                       a.diagnosisData.diagnosis), Str(<<>>))
        matchesSearch ==
            \/ Includes(ToLowerCase(userName.s), searchLower)
            \/ Includes(ToLowerCase(techName.s), searchLower)
            \/ Includes(ToLowerCase(deviceType.s), searchLower)
            \/ Includes(ToLowerCase(issue.s), searchLower)
        matchesStatus ==
            status = All \/ (a.status.global.def /\ a.status.global.s = status)
    IN matchesSearch /\ matchesStatus

\* faulty variant: the matching records come out newest last
FilteredAppointmentsReordered(recs, term, status) ==
    LET kept == SelectSeq(recs, LAMBDA a : ApptMatches(a, term, status))
    IN [i \in DOMAIN kept |-> kept[Len(kept) + 1 - i]]

\* filteredAppointments
FilteredAppointments(recs, term, status) ==
    SelectSeq(recs, LAMBDA a : ApptMatches(a, term, status))

\* x?.toLowerCase()?.includes(searchLower): undefined when x is undefined
OptIncludes(x, searchLower) == x.def /\ Includes(ToLowerCase(x.s), searchLower)

\* (x && x.toLowerCase().includes(searchLower)): falsy when x is undefined or ""
AndIncludes(x, searchLower) == Truthy(x) /\ Includes(ToLowerCase(x.s), searchLower)

\* filteredRepairs: the predicate of repairs.filter(...)
RepairMatches(r, term, typeFilter) ==
    LET searchLower == ToLowerCase(term)
        matchesSearch ==
            \/ OptIncludes(r.userInfo.username, searchLower)
            \/ OptIncludes(r.userDetails.name, searchLower)
            \/ OptIncludes(r.technicianInfo.username, searchLower)
            \/ OptIncludes(r.technicianDetails.name, searchLower)
            \/ AndIncludes(r.deviceType, searchLower)
            \/ AndIncludes(r.diagnosisData.category, searchLower)
            \/ AndIncludes(r.diagnosisData.brand, searchLower)
            \/ AndIncludes(r.issue, searchLower)
            \/ AndIncludes(r.diagnosisData.issue, searchLower)
            \/ AndIncludes(r.diagnosisData.issueDescription, searchLower)
    IN IF typeFilter = All
       THEN matchesSearch
       ELSE matchesSearch /\ r.status.global.def /\ r.status.global.s = typeFilter

\* faulty variant: the type filter is not applied
FilteredRepairsAnyStatus(recs, term, typeFilter) ==
    SelectSeq(recs, LAMBDA r : RepairMatches(r, term, All))

FilteredRepairs(recs, term, typeFilter) ==
    SelectSeq(recs, LAMBDA r : RepairMatches(r, term, typeFilter))

\* the filter of view v
Filtered(v, recs, term, status) ==
    IF v = "appointments" THEN FilteredAppointments(recs, term, status)
                          ELSE FilteredRepairs(recs, term, status)

-----------------------------------------------------------------------------
(* The filter under the search box and the status select *)

\* a resolved record with every display field present
FullRec == Rec("f1", Str(<<"u", "1">>), Str(<<"t", "1">>),
               Obj(Str(<<"a", "n", "n">>), Undef, Undef, NA, NA), NoObj,
               Obj(Str(<<"P", "i", "p">>), Undef, Undef, NA, NA), NoObj,
               Str(<<"i", "P">>), Str(<<"p", "i", "n">>), NoDiag, Status(Completed))
\* display fields absent, the device known only by the diagnosis brand
BrandRec == Rec("f2", Str(<<"u", "1">>), Str(<<"t", "1">>), NoObj, NoObj, NoObj, NoObj,
                Undef, Undef, Diag(Undef, Str(<<"i", "P">>), Undef, Undef, Undef),
                Status(Repairing))
\* every searchable field and the status absent
BareRec == Rec("f3", Str(<<"u", "1">>), Str(<<"t", "1">>), NoObj, NoObj, NoObj, NoObj,
               Undef, Undef, NoDiag, NoStatus)
\* mobile app structure: userDetails / technicianDetails only
MobileRec == Rec("f4", Str(<<"u", "1">>), Str(<<"t", "1">>), NoObj,
                 Obj(Undef, Str(<<"A", "n", "n", "a">>), Undef, Undef, Undef), NoObj,
                 Obj(Undef, Str(<<>>), Undef, Undef, Undef),
                 Undef, Undef, Diag(Str(<<"p", "c">>), Undef, Str(<<"n", "i", "p">>), Undef, Undef),
                 Status(Completed))

\* device type absent, diagnosis category and brand both present, no status
CatBrandRec == Rec("f5", Str(<<"u", "1">>), Str(<<"t", "1">>), NoObj, NoObj, NoObj, NoObj,
                   Undef, Undef, Diag(Str(<<"p", "c">>), Str(<<"i", "P">>), Undef, Undef, Undef),
                   NoStatus)

FilterRecs == {FullRec, BrandRec, BareRec, MobileRec, CatBrandRec}

RECURSIVE SeqsUpTo(_, _)
SeqsUpTo(S, n) ==
    IF n = 0 THEN {<<>>}
    ELSE LET shorter == SeqsUpTo(S, n - 1)
         IN shorter \cup {Append(q, x) : q \in shorter, x \in S}

\* what the admin may type in the search box
SearchTerms == {<<>>, <<"i", "p">>, <<"I", "P">>, <<"n">>, <<"u", "n", "k">>}
\* the options of the status select
StatusOptions == {All, Completed.s, Repairing.s}

\* a render: the filtered list, and the filter applied to that list once more
Rerender(recs, term, status) ==
    /\ fOut' = Filtered(view, recs, term, status)
    /\ fAgain' = Filtered(view, Filtered(view, recs, term, status), term, status)

\* onChange of the search input: setSearchTerm(e.target.value)
SetSearchTerm(t) ==
    /\ t # searchTerm
    /\ searchTerm' = t
    /\ Rerender(fIn, t, statusFilter)
    /\ UNCHANGED <<fIn, statusFilter, syncVars, freeVars, diagVars, focus>>

\* onChange of the status select: setStatusFilter / setTypeFilter
SetStatusFilter(f) ==
    /\ f # statusFilter
    /\ statusFilter' = f
    /\ Rerender(fIn, searchTerm, f)
    /\ UNCHANGED <<fIn, searchTerm, syncVars, freeVars, diagVars, focus>>

-----------------------------------------------------------------------------
(* The diagnosis modal of the appointments view *)

\* number of View Diagnosis clicks in one behaviour
MaxRequests == 3

\* a document of the diagnoses collection
NoDiagDoc == [def |-> FALSE, category |-> Undef, deviceType |-> Undef, brand |-> Undef,
              model |-> Undef, issueDescription |-> Undef, issue |-> Undef,
              diagnosis |-> Undef, findings |-> Undef]
DiagDoc(category, deviceType, brand, model, issueDescription, issue, diagnosis, findings) ==
    [def |-> TRUE, category |-> category, deviceType |-> deviceType, brand |-> brand,
     model |-> model, issueDescription |-> issueDescription, issue |-> issue,
     diagnosis |-> diagnosis, findings |-> findings]

\* the diagnoses collection: d1 is stored under the older field names, d2 is
\* stored under the current ones, d3 does not exist
DiagnosesColl ==
    [id \in {"d1", "d2", "d3"} |->
        IF id = "d1"
        THEN DiagDoc(Undef, Str(<<"p", "c">>), Undef, Str(<<"x", "1">>), Undef,
                     Str(<<"p", "i", "n">>), Undef, Str(<<"o", "k">>))
        ELSE IF id = "d2"
        THEN DiagDoc(Str(<<"t", "v">>), Undef, Str(<<"l", "g">>), Undef,
                     Str(<<"d", "i", "m">>), Undef, Str(<<"l", "e", "d">>), Undef)
        ELSE NoDiagDoc]

\* the object built from diagDoc.data() (model, estimatedCost and isCustomIssue
\* are copied as they are and left out)
DiagFromDoc(data) ==
    Diag(Or(Or(data.category, data.deviceType), Str(<<>>)),
         Or(Or(data.brand, data.model), Str(<<>>)),
         Or(Or(data.issueDescription, data.issue), Str(<<>>)),
         Undef,
         Or(Or(data.diagnosis, data.findings), Str(<<>>)))

\* the fields of a listed appointment that the handler reads
Card(id, data, diagnosisId) == [id |-> id, diagnosisData |-> data, diagnosisId |-> diagnosisId]

EmbeddedDiag == Diag(Str(<<"i", "P">>), Undef, Str(<<"n", "i", "p">>), Undef, Undef)

\* the cards on screen: diagnosis embedded; diagnosis documents d1 and d2;
\* a dangling diagnosisId; no diagnosis at all
Cards ==
    { Card("a1", EmbeddedDiag, Str(<<"d", "1">>)),
      Card("a2", NoDiag, Str(<<"d", "1">>)),
      Card("a3", NoDiag, Str(<<"d", "2">>)),
      Card("a4", NoDiag, Str(<<"d", "3">>)),
      Card("a5", NoDiag, Undef) }

\* doc(db, 'diagnoses', appointment.diagnosisId)
DiagId(card) == IF card.diagnosisId.s = <<"d", "1">> THEN "d1"
                ELSE IF card.diagnosisId.s = <<"d", "2">> THEN "d2" ELSE "d3"

NotFound == "Diagnosis not found."
NoInformation == "No diagnosis information available for this appointment."
FailedToLoad == "Failed to load diagnosis."

\* onClick of View Diagnosis, up to the await of getDoc (or to the end when no
\* read is issued).  The modal's overlay covers the page, so the button is
\* reachable only while the modal is closed.
ViewDiagnosis(card) ==
    /\ ~showDiagnosisModal
    /\ Len(requests) < MaxRequests
    /\ showDiagnosisModal' = TRUE
    /\ IF card.diagnosisData.def
       THEN /\ diagnosisError' = NoError
            /\ diagnosisData' = card.diagnosisData
            /\ diagnosisLoading' = FALSE
            /\ requests' = Append(requests, [card |-> card, pc |-> "done", outcome |-> "embedded"])
       ELSE IF Truthy(card.diagnosisId)
       THEN /\ diagnosisError' = NoError
            /\ diagnosisData' = diagnosisData
            /\ diagnosisLoading' = TRUE
            /\ requests' = Append(requests, [card |-> card, pc |-> "read", outcome |-> "none"])
       ELSE /\ diagnosisError' = NoInformation
            /\ diagnosisData' = diagnosisData
            /\ diagnosisLoading' = FALSE
            /\ requests' = Append(requests, [card |-> card, pc |-> "done", outcome |-> "no id"])
    /\ UNCHANGED diagnoses
    /\ UNCHANGED <<syncVars, freeVars, filterVars, focus>>

\* the getDoc of request k settles: the rest of the handler runs
DiagReadDone(k, fails) ==
    /\ requests[k].pc = "read"
    /\ LET id == DiagId(requests[k].card)
           outcome == IF fails THEN "fail" ELSE IF diagnoses[id].def THEN "doc" ELSE "absent"
       IN /\ diagnosisData' = IF outcome = "doc" THEN DiagFromDoc(diagnoses[id])
                                                 ELSE diagnosisData
          /\ diagnosisError' = IF outcome = "doc" THEN diagnosisError
                               ELSE IF outcome = "absent" THEN NotFound
                               ELSE FailedToLoad
          /\ requests' = [requests EXCEPT ![k].pc = "done", ![k].outcome = outcome]
    /\ diagnosisLoading' = FALSE
    /\ UNCHANGED <<diagnoses, showDiagnosisModal>>
    /\ UNCHANGED <<syncVars, freeVars, filterVars, focus>>

\* click on the overlay or on the close button
CloseDiagnosis ==
    /\ showDiagnosisModal
    /\ showDiagnosisModal' = FALSE
    /\ UNCHANGED <<diagnoses, diagnosisLoading, diagnosisError, diagnosisData, requests>>
    /\ UNCHANGED <<syncVars, freeVars, filterVars, focus>>

\* what the modal shows
DiagRender ==
    IF ~showDiagnosisModal THEN "closed"
    ELSE IF diagnosisLoading THEN "loading"
    ELSE IF diagnosisError # NoError THEN "error"
    ELSE IF diagnosisData.def THEN "loaded"
    ELSE "empty"

DiagIdle ==
    /\ diagnoses = DiagnosesColl
    /\ showDiagnosisModal = FALSE
    /\ diagnosisLoading = FALSE
    /\ diagnosisError = NoError
    /\ diagnosisData = NoDiag
    /\ requests = <<>>

DiagNext ==
    \/ \E card \in Cards : ViewDiagnosis(card)
    \/ \E k \in DOMAIN requests : \E fails \in BOOLEAN : DiagReadDone(k, fails)
    \/ CloseDiagnosis

-----------------------------------------------------------------------------
(* Specifications *)

SyncIdle ==
    /\ users = UsersColl
    /\ technicians = TechniciansColl
    /\ mounted = TRUE
    /\ subscribed = TRUE
    /\ records = <<>>
    /\ loading = TRUE
    /\ error = NoError
    /\ passes = <<>>
    /\ errorFired = FALSE

FreelanceIdle ==
    /\ techDocs = [u \in Uids |-> TechDoc(Undef, Undef, FALSE, FALSE)]
    /\ fSubscribed = TRUE
    /\ freelancers = <<>>
    /\ fLoading = TRUE
    /\ selected = <<>>
    /\ gate = NoGate
    /\ writes = <<>>
    /\ clock = 1
    /\ alerts = 0
    /\ dlog = NoEvents

FilterIdle ==
    /\ fIn = <<>>
    /\ searchTerm = <<>>
    /\ statusFilter = All
    /\ fOut = <<>>
    /\ fAgain = <<>>

\* the appointments / repairs view
Init == SyncInit /\ FreelanceIdle /\ FilterIdle /\ DiagIdle /\ focus = "sync"
Next == SyncNext
Spec == Init /\ [][Next]_vars

\* the freelance technicians view
FreelanceSpecInit ==
    view = "freelance" /\ SyncIdle /\ FreelanceInit /\ FilterIdle /\ DiagIdle /\ focus = "freelance"
FreelanceSpec == FreelanceSpecInit /\ [][FreelanceNext]_vars

\* the filter of either view over a stored record list
FilterInit ==
    /\ view \in {"appointments", "repairs"}
    /\ SyncIdle
    /\ FreelanceIdle
    /\ DiagIdle
    /\ focus = "filter"
    /\ fIn \in SeqsUpTo(FilterRecs, MaxFilterLen)
    /\ searchTerm = <<>>
    /\ statusFilter = All
    /\ fOut = Filtered(view, fIn, searchTerm, statusFilter)
    /\ fAgain = Filtered(view, fOut, searchTerm, statusFilter)
FilterNext ==
    \/ \E t \in SearchTerms : SetSearchTerm(t)
    \/ \E f \in StatusOptions : SetStatusFilter(f)
FilterSpec == FilterInit /\ [][FilterNext]_vars

\* the diagnosis modal of the appointments view
DiagInit ==
    view = "appointments" /\ SyncIdle /\ FreelanceIdle /\ FilterIdle /\ DiagIdle /\ focus = "diagnosis"
DiagSpec == DiagInit /\ [][DiagNext]_vars

\* the whole dashboard: a behaviour runs one of its pages
StoreInit == Init \/ FreelanceSpecInit \/ FilterInit \/ DiagInit
StoreNext ==
    \/ focus = "sync" /\ SyncNext
    \/ focus = "freelance" /\ FreelanceNext
    \/ focus = "filter" /\ FilterNext
    \/ focus = "diagnosis" /\ DiagNext
StoreSpec == StoreInit /\ [][StoreNext]_vars

-----------------------------------------------------------------------------
(* Properties of the appointments / repairs view (Spec) *)

LastPass == passes[Len(passes)]
PassDone(n) == AllDone(passes[n].work)

\* the card list on screen: empty while the spinner or the error page is shown
Displayed ==
    IF Render = "list" THEN Filtered(view, records, searchTerm, statusFilter) ELSE <<>>

\* C1: once the resolution passes of all delivered snapshots (two or more) have
\* finished, the stored record list is the resolved form of the snapshot delivered
\* last, never that of an earlier one.
C1_LatestSnapshotWins ==
    (Len(passes) >= 2 /\ \A n \in DOMAIN passes : PassDone(n))
        => records = PassResult(view, LastPass.snap, LastPass.work)

IsSentinelInfo(o) ==
    o.def /\ o.username = Unknown /\ o.email = NA /\ o.phone = NA

\* C2: a resolved record that embedded no user (technician) snapshot and whose
\* user (technician) read failed or found no document carries 'Unknown' / 'N/A'
\* in that entity's display fields.
C2_MissingEntityGetsSentinel ==
    \A n \in DOMAIN passes : \A i \in DOMAIN passes[n].work :
        LET a == passes[n].snap[i]
            w == passes[n].work[i]
            r == Resolved(view, a, w.uRead, w.tRead)
        IN w.pc = "done" =>
             /\ (w.uRead.kind \in {"fail", "absent"} => IsSentinelInfo(r.userInfo))
             /\ (w.tRead.kind \in {"fail", "absent"} => IsSentinelInfo(r.technicianInfo))

\* C3: after teardown the listener is closed and no step changes the record list,
\* the loading flag or the error flag.
C3_NoUpdateAfterTeardown ==
    [][~mounted => (~subscribed /\ UNCHANGED <<records, loading, error>>)]_vars

\* C7: a resolution pass clears the loading flag only when every read of the
\* snapshot delivered last has completed (the step of the error callback, which
\* clears the flag too, is C8's).
C7_LoadingClearsWhenLatestResolved ==
    [][(loading /\ ~loading' /\ ~errorFired') => PassDone(Len(passes))']_vars

\* C8: when the listener's error callback runs, the loading flag becomes false and
\* the view renders the inline error page with its Retry button.
C8_ErrorShowsInlineRetry ==
    [][(~errorFired /\ errorFired') => (~loading' /\ Render' = "error")]_vars

\* C9: after the listener has delivered an error the card list on screen is empty.
C9_NoListAfterError ==
    errorFired => Displayed = <<>>

-----------------------------------------------------------------------------
(* Properties of the freelance view's soft delete (FreelanceSpec) *)

Logged(ev, u) == dlog[ev][u] > 0
JustLogged(ev, u) == dlog'[ev][u] > dlog[ev][u]

\* C4: the write committed for technician T was issued as a merge-write of exactly
\* {isDeleted: true, deletedAt: <time of the action>, deletedBy: "admin"}; committing
\* it changes these three fields of T and nothing else in the store, and the
\* selection is cleared.
C4_SoftDeleteWrite ==
    [][\A u \in Uids : JustLogged("applied", u) =>
          \E k \in DOMAIN writes :
              LET w == writes[k]
              IN /\ w.uid = u
                 /\ w.merge
                 /\ DOMAIN w.payload = {"isDeleted", "deletedAt", "deletedBy"}
                 /\ w.payload.isDeleted = TRUE
                 /\ w.payload.deletedAt = IsoTime(w.at)
                 /\ w.payload.deletedBy = Admin
                 /\ DOMAIN techDocs'[u] = DOMAIN techDocs[u]
                 /\ \A f \in DOMAIN techDocs[u] \ DOMAIN w.payload :
                        techDocs'[u][f] = techDocs[u][f]
                 /\ techDocs'[u].isDeleted = TRUE
                 /\ techDocs'[u].deletedAt = IsoTime(w.at)
                 /\ techDocs'[u].deletedBy = Admin
                 /\ \A o \in Uids \ {u} : techDocs'[o] = techDocs[o]
                 /\ selected' = <<>>]_vars

\* a delete of a technician whose other fields are set was committed
C4_Witness ==
    \E u \in Uids :
        /\ Logged("applied", u)
        /\ techDocs[u].isDeleted
        /\ techDocs[u].deletedBy = Admin
        /\ Truthy(techDocs[u].username)
        /\ selected = <<>>

\* C5: a write is issued only in the step that answers the open confirmation of a
\* delete request for that technician with "confirm"; the step that answers it with
\* "cancel" issues no write and leaves the selection and the store unchanged.
C5_WriteOnlyAfterConfirm ==
    [][/\ \A u \in Uids : JustLogged("write", u) =>
              /\ gate.isOpen
              /\ gate.freelancer[1].uid = u
              /\ Logged("request", u)
              /\ JustLogged("confirm", u)
              /\ Len(writes') = Len(writes) + 1
       /\ Len(writes') > Len(writes) => \E u \in Uids : JustLogged("write", u)
       /\ \A u \in Uids : JustLogged("cancel", u) =>
              UNCHANGED <<writes, selected, techDocs>>]_vars

\* one request was cancelled and another confirmed, with a technician selected
C5_Witness ==
    /\ \E u \in Uids : Logged("cancel", u)
    /\ \E u \in Uids : Logged("write", u)
    /\ selected # <<>>

\* C6: when the store rejects the write, the selection and every stored field are
\* unchanged and one alert is shown.
C6_FailedWriteKeepsSelection ==
    [][\A u \in Uids : JustLogged("failed", u) =>
          /\ selected' = selected
          /\ techDocs' = techDocs
          /\ alerts' = alerts + 1]_vars

\* a write failed while its technician was still selected and is still not deleted
C6_Witness ==
    \E u \in Uids :
        /\ Logged("failed", u)
        /\ ~Logged("applied", u)
        /\ selected # <<>>
        /\ selected[1].uid = u
        /\ ~techDocs[u].isDeleted
        /\ alerts > 0

-----------------------------------------------------------------------------
(* Properties of the filters (FilterSpec) *)

RECURSIVE IsSubsequence(_, _)
IsSubsequence(a, b) ==
    IF a = <<>> THEN TRUE
    ELSE IF b = <<>> THEN FALSE
    ELSE IF Head(a) = Head(b) THEN IsSubsequence(Tail(a), Tail(b))
    ELSE IsSubsequence(a, Tail(b))

\* C10: the filtered list is a subsequence of the stored list in its order, and
\* filtering it again with the same term and status returns it unchanged.
C10_FilterOrderedIdempotent ==
    /\ IsSubsequence(fOut, fIn)
    /\ fAgain = fOut

\* a search under a status filter that drops the middle record of three and
\* keeps the two others, which differ
C10_Witness ==
    /\ searchTerm # <<>>
    /\ statusFilter # All
    /\ Len(fIn) = 3
    /\ fOut = <<fIn[1], fIn[3]>>
    /\ fIn[1] # fIn[3]

Range(q) == {q[i] : i \in DOMAIN q}

\* the record passes the search box alone (the status select on 'all')
SearchMatches(v, r, term) ==
    IF v = "appointments" THEN ApptMatches(r, term, All) ELSE RepairMatches(r, term, All)

\* C11: with the status select on 'all' the filtered list holds every record that
\* matches the search, whatever its status; with any other value it holds exactly
\* the search-matching records whose status.global equals that value, so a record
\* without a status is left out.
C11_StatusFilter ==
    /\ statusFilter = All =>
          fOut = SelectSeq(fIn, LAMBDA r : SearchMatches(view, r, searchTerm))
    /\ statusFilter # All =>
          /\ fOut = SelectSeq(fIn, LAMBDA r : /\ SearchMatches(view, r, searchTerm)
                                              /\ r.status = Status(Str(statusFilter)))
          /\ \A r \in Range(fOut) : r.status # NoStatus

\* under a status value and a search, one matching record is kept, one of another
\* status and one without a status are dropped
C11_Witness ==
    /\ statusFilter # All
    /\ searchTerm # <<>>
    /\ \E i, j, k \in DOMAIN fIn :
          /\ SearchMatches(view, fIn[i], searchTerm)
          /\ fIn[i] \in Range(fOut)
          /\ SearchMatches(view, fIn[j], searchTerm)
          /\ fIn[j].status.def
          /\ fIn[j] \notin Range(fOut)
          /\ SearchMatches(view, fIn[k], searchTerm)
          /\ fIn[k].status = NoStatus
          /\ fIn[k] \notin Range(fOut)

\* no searchable field of the record is present
AllSearchableAbsent(r) ==
    /\ r.userInfo = NoObj /\ r.userDetails = NoObj
    /\ r.technicianInfo = NoObj /\ r.technicianDetails = NoObj
    /\ r.deviceType = Undef /\ r.issue = Undef
    /\ r.diagnosisData = NoDiag

\* C12: under a non-empty search term the filtered list holds no record whose user
\* name, technician name, device type / category and issue are all absent.
C12_AbsentFieldsMatchNothing ==
    searchTerm # <<>> => \A r \in Range(fOut) : ~AllSearchableAbsent(r)

\* C13: with an empty search term and the status select on 'all' the filtered list
\* is the stored list, records without any searchable field included.
C13_EmptySearchKeepsAll ==
    (searchTerm = <<>> /\ statusFilter = All) => fOut = fIn

\* C14: under the term 'ip' (in any case) and the status select on 'all', a record
\* without a deviceType whose diagnosis brand is 'iP' is in the filtered list,
\* whatever its other fields (diagnosisData.category included) hold.
C14_BrandMatches ==
    (ToLowerCase(searchTerm) = <<"i", "p">> /\ statusFilter = All) =>
        \A i \in DOMAIN fIn :
            (fIn[i].deviceType = Undef /\ fIn[i].diagnosisData.brand = Str(<<"i", "P">>))
                => fIn[i] \in Range(fOut)

-----------------------------------------------------------------------------
(* Properties of the freelance list (FreelanceSpec) *)

\* the status is a string that reads 'approved' when case is ignored
ApprovedIgnoringCase(status) ==
    /\ IsString(status)
    /\ Len(status.s) = Len(Approved)
    /\ \A i \in DOMAIN Approved : LowerChar(status.s[i]) = Approved[i]

\* C15: a snapshot delivery sets the freelance list to the snapshot's documents, in
\* snapshot order, that are not deleted, have no shop and whose status is a string
\* equal to 'approved' ignoring case; a missing or non-string status is left out.
C15_FreelanceList ==
    [][FreelanceOnSnapshot =>
          LET docs == SnapshotDocs(techDocs)
          IN /\ IsSubsequence(freelancers', docs)
             /\ \A i \in DOMAIN docs :
                    docs[i] \in Range(freelancers') <=>
                        /\ ~docs[i].isDeleted
                        /\ ~docs[i].hasShop
                        /\ ApprovedIgnoringCase(docs[i].status)]_vars

\* after the delete of t1 was committed, a snapshot left only t2, whose status is
\* 'approved' in another case, in the list
C15_Witness ==
    /\ ~fLoading
    /\ Logged("applied", "t1")
    /\ techDocs["t1"].isDeleted
    /\ Len(freelancers) = 1
    /\ freelancers[1].uid = "t2"
    /\ freelancers[1].status # Str(Approved)

-----------------------------------------------------------------------------
(* Properties of the diagnosis modal (DiagSpec) *)

\* the request made last
LatestRequest == requests[Len(requests)]

\* the request made last has run to its end in this step
LatestJustDone ==
    /\ requests' # <<>>
    /\ LatestRequest'.pc = "done"
    /\ Len(requests') > Len(requests) \/ LatestRequest.pc = "read"

\* C16: while the modal is open it shows loading, error or loaded; a request for a
\* card that embeds its diagnosis issues no read and any other request with a
\* diagnosisId issues one read of that document; when the latest request has run
\* to its end the open modal shows loaded if the diagnosis was embedded or the
\* read returned a document, and error otherwise.
C16_DiagnosisModalStates ==
    [][/\ showDiagnosisModal' => DiagRender' \in {"loading", "error", "loaded"}
       /\ Len(requests') > Len(requests) =>
              /\ LatestRequest'.card.diagnosisData.def => LatestRequest'.pc = "done"
              /\ (~LatestRequest'.card.diagnosisData.def
                    /\ Truthy(LatestRequest'.card.diagnosisId)) => LatestRequest'.pc = "read"
       /\ (LatestJustDone /\ showDiagnosisModal') =>
              DiagRender' = IF LatestRequest'.outcome \in {"embedded", "doc"}
                            THEN "loaded" ELSE "error"]_vars

-----------------------------------------------------------------------------
(* Properties of the resolvers (Spec) *)

\* the outcome of a read when record r is resolved once more against the same
\* store: the outcome it had, or what the store holds if it was not read before
ReadAgain(needed, before, coll, id) ==
    IF ~needed THEN NoRead
    ELSE IF before.kind # "none" THEN before
    ELSE GetDoc(coll, id.s)

\* the resolver applied to its own result r
ResolvedAgain(v, r, w) ==
    Resolved(v, r, ReadAgain(NeedsUserRead(v, r), w.uRead, users, r.userId),
                   ReadAgain(NeedsTechRead(v, r), w.tRead, technicians, r.technicianId))

\* C17: resolving a resolved record once more, with the store unchanged, returns
\* the same record.
C17_ResolutionIdempotent ==
    \A n \in DOMAIN passes : \A i \in DOMAIN passes[n].work :
        LET w == passes[n].work[i]
            r == Resolved(view, passes[n].snap[i], w.uRead, w.tRead)
        IN w.pc = "done" => ResolvedAgain(view, r, w) = r

\* the display object info carries the values of the fetched document data
CarriesFetched(info, data) ==
    /\ info.def
    /\ Truthy(data.username) => info.username = data.username
    /\ (~Truthy(data.username) /\ Truthy(data.name)) => info.username = data.name
    /\ Truthy(data.email) => info.email = data.email
    /\ Truthy(data.phone) => info.phone = data.phone

\* C18: for a record that needs both reads, both are made whatever the outcome of
\* the other; when one fails or finds no document and the other returns a
\* document, the other entity's resolved fields carry the fetched values; and the
\* result of a pass holds every record of its snapshot.
C18_ReadsFailIndependently ==
    \A n \in DOMAIN passes :
        /\ \A i \in DOMAIN passes[n].work :
              LET a == passes[n].snap[i]
                  w == passes[n].work[i]
                  r == Resolved(view, a, w.uRead, w.tRead)
              IN w.pc = "done" =>
                   /\ (NeedsUserRead(view, a) /\ NeedsTechRead(view, a)) =>
                          (w.uRead.kind # "none" /\ w.tRead.kind # "none")
                   /\ (w.uRead.kind \in {"fail", "absent"} /\ w.tRead.kind = "doc") =>
                          CarriesFetched(r.technicianInfo, w.tRead.data)
                   /\ (w.tRead.kind \in {"fail", "absent"} /\ w.uRead.kind = "doc") =>
                          CarriesFetched(r.userInfo, w.uRead.data)
        /\ PassDone(n) =>
              LET out == PassResult(view, passes[n].snap, passes[n].work)
              IN /\ Len(out) = Len(passes[n].snap)
                 /\ \A i \in DOMAIN out : out[i].id = passes[n].snap[i].id

\* the user read of a record failed, its technician read returned the document,
\* and the record is listed with the technician's phone number
C18_Witness ==
    \E n \in DOMAIN passes : \E i \in DOMAIN passes[n].work :
        /\ PassDone(n)
        /\ passes[n].work[i].uRead.kind = "fail"
        /\ passes[n].work[i].tRead.kind = "doc"
        /\ records = PassResult(view, passes[n].snap, passes[n].work)
        /\ records[i].technicianInfo.phone = Str(<<"5", "5">>)
        /\ ~loading

EmbedsUser(a) == a.userInfo.def \/ a.userDetails.def
EmbedsTechnician(a) == a.technicianInfo.def \/ a.technicianDetails.def

\* C19: a record that embeds userInfo or userDetails (technicianInfo or
\* technicianDetails) never has a user (technician) read in flight or completed,
\* and within one pass a read that has completed for a record is not made again.
C19_NoRedundantRead ==
    [][\A n \in DOMAIN passes' : \A i \in DOMAIN passes'[n].work :
          LET a == passes'[n].snap[i]
              w == passes'[n].work[i]
          IN /\ EmbedsUser(a) => (w.uRead.kind = "none" /\ w.pc # "user")
             /\ EmbedsTechnician(a) => (w.tRead.kind = "none" /\ w.pc # "tech")
             /\ n \in DOMAIN passes =>
                    LET v == passes[n].work[i]
                    IN /\ v.uRead.kind # "none" => (w.uRead = v.uRead /\ w.pc # "user")
                       /\ v.tRead.kind # "none" => (w.tRead = v.tRead /\ w.pc = "done")
                       /\ v.pc = "tech" => w.pc # "user"
                       /\ v.pc = "done" => w.pc = "done"]_vars

\* a pass has finished in which one record embedded its user and was resolved
\* with a technician read only, while another record had its user read
C19_Witness ==
    \E n \in DOMAIN passes : \E i, j \in DOMAIN passes[n].work :
        /\ PassDone(n)
        /\ EmbedsUser(passes[n].snap[i])
        /\ passes[n].work[i].uRead.kind = "none"
        /\ passes[n].work[i].tRead.kind # "none"
        /\ passes[n].work[j].uRead.kind # "none"

-----------------------------------------------------------------------------
(* Properties of the store (StoreSpec) *)

SoftDeleteFields == {"isDeleted", "deletedAt", "deletedBy"}

\* C20: no step changes a document of the users or diagnoses collection, and a
\* technician document changes only in the step that commits a soft-delete
\* merge-write for it, which sets isDeleted, deletedAt and deletedBy and keeps
\* every other field; no document is removed.
C20_OnlySoftDeleteWrites ==
    [][/\ users' = users
       /\ technicians' = technicians
       /\ diagnoses' = diagnoses
       /\ DOMAIN techDocs' = DOMAIN techDocs
       /\ \A u \in DOMAIN techDocs :
              techDocs'[u] # techDocs[u] =>
                  /\ JustLogged("applied", u)
                  /\ \E k \in DOMAIN writes :
                         /\ writes[k].uid = u
                         /\ writes[k].merge
                         /\ DOMAIN writes[k].payload = SoftDeleteFields
                  /\ DOMAIN techDocs'[u] = DOMAIN techDocs[u]
                  /\ \A f \in DOMAIN techDocs[u] \ SoftDeleteFields :
                         techDocs'[u][f] = techDocs[u][f]
                  /\ techDocs'[u].isDeleted = TRUE
                  /\ techDocs'[u].deletedBy = Admin]_vars

\* on the freelance page one technician was soft-deleted and kept its status,
\* the other technician is untouched
C20_Witness ==
    /\ focus = "freelance"
    /\ \E u \in Uids :
          /\ Logged("applied", u)
          /\ techDocs[u].isDeleted
          /\ ApprovedIgnoringCase(techDocs[u].status)
          /\ \A o \in Uids \ {u} : ~techDocs[o].isDeleted /\ techDocs[o].deletedAt = NoTime

-----------------------------------------------------------------------------
(* Properties of embedded display snapshots (Spec) *)

\* the name a display snapshot carries
SnapshotName(o) == Or(o.username, o.name)

\* the resolved object res holds every name, email and phone that the embedded
\* object emb holds
KeepsSnapshot(emb, res) ==
    emb.def =>
        /\ res.def
        /\ Truthy(SnapshotName(emb)) => SnapshotName(res) = SnapshotName(emb)
        /\ Truthy(emb.email) => res.email = emb.email
        /\ Truthy(emb.phone) => res.phone = emb.phone

\* C21: a resolved record holds, in each of userInfo, userDetails, technicianInfo
\* and technicianDetails that the raw record embedded, the name, email and phone
\* that were embedded there.
C21_EmbeddedSnapshotKept ==
    \A n \in DOMAIN passes : \A i \in DOMAIN passes[n].work :
        LET a == passes[n].snap[i]
            w == passes[n].work[i]
            r == Resolved(view, a, w.uRead, w.tRead)
        IN w.pc = "done" =>
             /\ KeepsSnapshot(a.userInfo, r.userInfo)
             /\ KeepsSnapshot(a.userDetails, r.userDetails)
             /\ KeepsSnapshot(a.technicianInfo, r.technicianInfo)
             /\ KeepsSnapshot(a.technicianDetails, r.technicianDetails)

-----------------------------------------------------------------------------
(* Properties of overlapping diagnosis requests (DiagSpec) *)

\* the read of request k has settled in this step
ReadJustDone(k) ==
    /\ k \in DOMAIN requests
    /\ requests[k].pc = "read"
    /\ requests'[k].pc = "done"

\* the diagnosis that belongs to a card: the embedded one, or the one built
\* from the document its diagnosisId names
DiagnosisOf(card) ==
    IF card.diagnosisData.def THEN card.diagnosisData
    ELSE DiagFromDoc(diagnoses[DiagId(card)])

\* C22: the settling of a read that was started for an earlier request leaves the
\* diagnosis data, the error and the loading flag of the modal unchanged, and a
\* modal that shows a diagnosis shows that of the card requested most recently.
C22_LatestRequestOwnsModal ==
    [][/\ \A k \in DOMAIN requests :
              (ReadJustDone(k) /\ k < Len(requests)) =>
                  UNCHANGED <<diagnosisData, diagnosisError, diagnosisLoading>>
       /\ DiagRender' = "loaded" =>
              diagnosisData' = DiagnosisOf(LatestRequest'.card)]_vars

-----------------------------------------------------------------------------
(* Properties of deletes that overlap selections (FreelanceSpec) *)

\* C23: a write is issued for the technician the open confirmation was requested
\* for, whoever is selected by then; committing the write for technician u changes
\* no other technician's document and leaves a selection of another technician,
\* made while the write was pending, as it is.
C23_DeleteTargetsRequested ==
    [][\A u \in Uids :
          /\ JustLogged("write", u) =>
                 /\ gate.freelancer[1].uid = u
                 /\ writes'[Len(writes')].uid = u
          /\ JustLogged("applied", u) =>
                 /\ Logged("request", u)
                 /\ \A o \in Uids \ {u} : techDocs'[o] = techDocs[o]
                 /\ (selected # <<>> /\ selected[1].uid # u) => selected' = selected]_vars

\* C24: a selected technician is an element of the stored freelance list, with
\* the same field values.
C24_SelectedIsListed ==
    selected # <<>> => selected[1] \in Range(freelancers)

\* the uids on the stored freelance list
ListedUids(list) == {list[i].uid : i \in DOMAIN list}

\* C25: once the soft delete of technician u has been committed, a snapshot
\* delivered while u's isDeleted flag is true leaves u off the freelance list, and
\* no other step puts u back on it.
C25_DeletedStaysAbsent ==
    [][\A u \in Uids :
          (Logged("applied", u) /\ techDocs[u].isDeleted) =>
              /\ FreelanceOnSnapshot => u \notin ListedUids(freelancers')
              /\ u \notin ListedUids(freelancers) => u \notin ListedUids(freelancers')]_vars

\* both technicians were listed and then soft-deleted, and a snapshot delivered
\* after the second delete left the list empty
C25_Witness ==
    /\ \A u \in Uids : Logged("applied", u) /\ techDocs[u].isDeleted
    /\ ~fLoading
    /\ fSubscribed
    /\ freelancers = <<>>

====
